---- MODULE Spec2Model ----
(***************************************************************************)
(* Model of disasm51, a disassembler for 8051/8052 firmware images:        *)
(* the instruction catalog (instructions.py), the operand decoder, the     *)
(* control-flow analyzer, the label namer and the renderer                 *)
(* (codeanalyzer.py), the symbol table (addresses.py) and the text helpers *)
(* (utils.py).  Addresses are 0-based as in the source; the ROM is a TLA+  *)
(* sequence, so rom[a + 1] is the byte at address a.                       *)
(***************************************************************************)
EXTENDS Integers, Sequences, FiniteSets, TLC

VARIABLES
    regIdx,         \* number of __add calls Instructions.__init__ has made
    catPhase,       \* position inside Instructions.__init__
    rom,            \* CodeAnalyzer.rom
    offset,         \* CodeAnalyzer.offset (load-address bias)
    no_return_from, \* CodeAnalyzer.no_return_from
    addresses,      \* Addresses.addr : scope -> (address -> name)
    labels,         \* CodeAnalyzer.labels : address -> LabelType
    labelOrder,     \* insertion order of the keys of CodeAnalyzer.labels
    forwards,       \* CodeAnalyzer.forwards : from -> to
    SFR_warnings,   \* CodeAnalyzer.SFR_warnings
    entry_queue,    \* the caller-owned entry queue
    phase,          \* position of the driver / of the running call
    start,          \* analyze_jumps: parameter start
    force,          \* analyze_jumps: parameter force
    pc,             \* analyze_jumps: local pc (and its return value)
    jumps,          \* analyze_jumps: local set jumps
    visited,        \* addresses examined by the current / last scan call
    failedAt,       \* addresses of the current scan whose operand decode failed
    enqueued,       \* every address placed in the entry queue so far, and by whom
    scanned,        \* start addresses of all scan calls so far
    examined,       \* addresses examined by any scan call so far
    render,         \* state of the last renderer call
    analyzer        \* an InstrArgsAnalyzer and the operand loop driving it

vars == << regIdx, catPhase, rom, offset, no_return_from,
           addresses, labels, labelOrder, forwards, SFR_warnings, entry_queue,
           phase, start, force, pc, jumps, visited, failedAt, enqueued,
           scanned, examined, render, analyzer >>

catVars == << regIdx, catPhase >>

inputVars == << rom, offset, no_return_from >>

scanVars == << start, force, pc, jumps, visited, failedAt >>

----------------------------------------------------------------------------
(* Generic helpers                                                         *)

RECURSIVE Concat(_)
Concat(ss) == IF ss = << >> THEN << >> ELSE Head(ss) \o Concat(Tail(ss))

SeqOf(n, F(_)) == [i \in 1..n |-> F(i - 1)]

Range(s) == {s[i] : i \in 1..Len(s)}

EmptyMap == [x \in {} |-> 0]

MapPut(m, k, v) == [x \in (DOMAIN m) \cup {k} |-> IF x = k THEN v ELSE m[x]]

RECURSIVE BitAnd(_, _)
BitAnd(a, b) ==
    IF a = 0 \/ b = 0 THEN 0
    ELSE (IF a % 2 = 1 /\ b % 2 = 1 THEN 1 ELSE 0) + 2 * BitAnd(a \div 2, b \div 2)

RECURSIVE BitOr(_, _)
BitOr(a, b) ==
    IF a = 0 THEN b
    ELSE IF b = 0 THEN a
    ELSE (IF a % 2 = 1 \/ b % 2 = 1 THEN 1 ELSE 0) + 2 * BitOr(a \div 2, b \div 2)

\* x & mask for a non-negative mask below 2^16 and any Python int x
\* (Python's & works on the infinite two's complement of x).
AndMask16(x, mask) == BitAnd(x % 65536, mask)

----------------------------------------------------------------------------
(* instructions.py: the instruction catalog                                *)

Digit == <<"0", "1", "2", "3", "4", "5", "6", "7", "8", "9">>

Instruction(code, length, mnemonic, args, jump_out, no_jump) ==
    [code |-> code, length |-> length, mnemonic |-> mnemonic, args |-> args,
     jump_out |-> jump_out, no_jump |-> no_jump]

\* the dictionary literal of the first loop, in its iteration order
RegisterOps == <<
    [msb |-> 0,   prefix |-> "inc",     suffix |-> "",    direct |-> TRUE],
    [msb |-> 16,  prefix |-> "dec",     suffix |-> "",    direct |-> TRUE],
    [msb |-> 32,  prefix |-> "add A,",  suffix |-> "",    direct |-> TRUE],
    [msb |-> 48,  prefix |-> "addc A,", suffix |-> "",    direct |-> TRUE],
    [msb |-> 64,  prefix |-> "orl A,",  suffix |-> "",    direct |-> TRUE],
    [msb |-> 80,  prefix |-> "anl A,",  suffix |-> "",    direct |-> TRUE],
    [msb |-> 96,  prefix |-> "xrl A,",  suffix |-> "",    direct |-> TRUE],
    [msb |-> 144, prefix |-> "subb A,", suffix |-> "",    direct |-> TRUE],
    [msb |-> 192, prefix |-> "xch A,",  suffix |-> "",    direct |-> TRUE],
    [msb |-> 208, prefix |-> "xchd A,", suffix |-> "",    direct |-> FALSE],
    [msb |-> 224, prefix |-> "mov A,",  suffix |-> "",    direct |-> TRUE],
    [msb |-> 240, prefix |-> "mov",     suffix |-> ", A", direct |-> TRUE] >>

IndirectReg(op, reg) ==
    Instruction(BitOr(op.msb, reg + 6), 1,
                op.prefix \o " @R" \o Digit[reg + 1] \o op.suffix,
                << >>, FALSE, FALSE)

DirectReg(op, reg) ==
    Instruction(BitOr(op.msb, reg + 8), 1,
                op.prefix \o " R" \o Digit[reg + 1] \o op.suffix,
                << >>, FALSE, FALSE)

RegisterOpGroup(op) ==
    LET ind(r) == IndirectReg(op, r)
        dir(r) == DirectReg(op, r)
    IN  SeqOf(2, ind) \o (IF op.direct THEN SeqOf(8, dir) ELSE << >>)

RegisterGroups ==
    LET grp(i) == RegisterOpGroup(RegisterOps[i + 1])
    IN  Concat(SeqOf(Len(RegisterOps), grp))

MovRegGroup(reg) == <<
    Instruction(BitOr(120, reg), 2, "mov R" \o Digit[reg + 1] \o ", #{0}",
                <<"IMM">>, FALSE, FALSE),
    Instruction(BitOr(136, reg), 2, "mov {0}, R" \o Digit[reg + 1],
                <<"DATA">>, FALSE, FALSE),
    Instruction(BitOr(168, reg), 2, "mov R" \o Digit[reg + 1] \o ", {0}",
                <<"DATA">>, FALSE, FALSE),
    Instruction(BitOr(184, reg), 3, "cjne R" \o Digit[reg + 1] \o ", #{0}, {1}",
                <<"IMM", "REL">>, FALSE, FALSE),
    Instruction(BitOr(216, reg), 2, "djnz R" \o Digit[reg + 1] \o ", {0}",
                <<"REL">>, FALSE, FALSE) >>

MovRegGroups == Concat(SeqOf(8, MovRegGroup))

\* a page-jump loop that shifts the page bits by 4 instead of 5
PageJumpGroupShift4(addr) == <<
    Instruction(BitOr(1, addr * 16), 2, "ajmp {0}", <<"ADDR">>, TRUE, FALSE),
    Instruction(BitOr(17, addr * 16), 2, "acall {0}", <<"ADDR">>, FALSE, FALSE) >>

PageJumpGroup(addr) == <<
    Instruction(BitOr(1, addr * 32), 2, "ajmp {0}", <<"ADDR">>, TRUE, FALSE),
    Instruction(BitOr(17, addr * 32), 2, "acall {0}", <<"ADDR">>, FALSE, FALSE) >>

PageJumpGroups == Concat(SeqOf(8, PageJumpGroup))

Singles == <<
      Instruction(0, 1, "nop", <<>>, FALSE, FALSE),
      Instruction(2, 3, "ljmp {0}", <<"LABEL">>, TRUE, FALSE),
      Instruction(3, 1, "rr A", <<>>, FALSE, FALSE),
      Instruction(4, 1, "inc A", <<>>, FALSE, FALSE),
      Instruction(5, 2, "inc {0}", <<"DATA">>, FALSE, FALSE),
      Instruction(16, 3, "jbc {0}, {1}", <<"BIT", "REL">>, FALSE, FALSE),
      Instruction(18, 3, "lcall {0}", <<"LABEL">>, FALSE, FALSE),
      Instruction(19, 1, "rrc A", <<>>, FALSE, FALSE),
      Instruction(20, 1, "dec A", <<>>, FALSE, FALSE),
      Instruction(21, 2, "dec {0}", <<"DATA">>, FALSE, FALSE),
      Instruction(32, 3, "jb {0}, {1}", <<"BIT", "REL">>, FALSE, FALSE),
      Instruction(34, 1, "ret", <<>>, TRUE, FALSE),
      Instruction(35, 1, "rl A", <<>>, FALSE, FALSE),
      Instruction(36, 2, "add A, #{0}", <<"IMM">>, FALSE, FALSE),
      Instruction(37, 2, "add A, {0}", <<"DATA">>, FALSE, FALSE),
      Instruction(48, 3, "jnb {0}, {1}", <<"BIT", "REL">>, FALSE, FALSE),
      Instruction(50, 1, "reti", <<>>, TRUE, FALSE),
      Instruction(51, 1, "rlc A", <<>>, FALSE, FALSE),
      Instruction(52, 2, "addc A, #{0}", <<"IMM">>, FALSE, FALSE),
      Instruction(53, 2, "addc A, {0}", <<"DATA">>, FALSE, FALSE),
      Instruction(64, 2, "jc {0}", <<"REL">>, FALSE, FALSE),
      Instruction(66, 2, "orl {0}, A", <<"DATA">>, FALSE, FALSE),
      Instruction(67, 3, "orl {0}, #{1}", <<"DATA", "IMM">>, FALSE, FALSE),
      Instruction(68, 2, "orl A, #{0}", <<"IMM">>, FALSE, FALSE),
      Instruction(69, 2, "orl A, {0}", <<"DATA">>, FALSE, FALSE),
      Instruction(80, 2, "jnc {0}", <<"REL">>, FALSE, FALSE),
      Instruction(82, 2, "anl {0}, A", <<"DATA">>, FALSE, FALSE),
      Instruction(83, 3, "anl {0}, #{1}", <<"DATA", "IMM">>, FALSE, FALSE),
      Instruction(84, 2, "anl A, #{0}", <<"IMM">>, FALSE, FALSE),
      Instruction(85, 2, "anl A, {0}", <<"DATA">>, FALSE, FALSE),
      Instruction(96, 2, "jz {0}", <<"REL">>, FALSE, FALSE),
      Instruction(98, 2, "xrl {0}, A", <<"DATA">>, FALSE, FALSE),
      Instruction(99, 3, "xrl {0}, #{1}", <<"DATA", "IMM">>, FALSE, FALSE),
      Instruction(100, 2, "xrl A, #{0}", <<"IMM">>, FALSE, FALSE),
      Instruction(101, 2, "xrl A, {0}", <<"DATA">>, FALSE, FALSE),
      Instruction(112, 2, "jnz {0}", <<"REL">>, FALSE, FALSE),
      Instruction(114, 2, "orl C, {0}", <<"BIT">>, FALSE, FALSE),
      Instruction(115, 1, "jmp @A + DPTR", <<>>, TRUE, FALSE),
      Instruction(116, 2, "mov A, #{0}", <<"IMM">>, FALSE, FALSE),
      Instruction(117, 3, "mov {0}, #{1}", <<"DATA", "IMM">>, FALSE, FALSE),
      Instruction(118, 2, "mov @R0, #{0}", <<"IMM">>, FALSE, FALSE),
      Instruction(119, 2, "mov @R1, #{0}", <<"IMM">>, FALSE, FALSE),
      Instruction(128, 2, "sjmp {0}", <<"REL">>, TRUE, FALSE),
      Instruction(130, 2, "anl C, {0}", <<"BIT">>, FALSE, FALSE),
      Instruction(131, 1, "movc A, @A + PC", <<>>, FALSE, FALSE),
      Instruction(132, 1, "div AB", <<>>, FALSE, FALSE),
      Instruction(133, 3, "mov {1}, {0}", <<"DATA", "DATA">>, FALSE, FALSE),
      Instruction(134, 2, "mov {0}, @R0", <<"DATA">>, FALSE, FALSE),
      Instruction(135, 2, "mov {0}, @R1", <<"DATA">>, FALSE, FALSE),
      Instruction(144, 3, "mov DPTR, #{0}", <<"LABEL">>, FALSE, TRUE),
      Instruction(146, 2, "mov {0}, C", <<"BIT">>, FALSE, FALSE),
      Instruction(147, 1, "movc A, @A + DPTR", <<>>, FALSE, FALSE),
      Instruction(148, 2, "subb A, #{0}", <<"IMM">>, FALSE, FALSE),
      Instruction(149, 2, "subb A, {0}", <<"DATA">>, FALSE, FALSE),
      Instruction(160, 2, "orl C, /{0}", <<"BIT">>, FALSE, FALSE),
      Instruction(162, 2, "mov C, {0}", <<"BIT">>, FALSE, FALSE),
      Instruction(163, 1, "inc DPTR", <<>>, FALSE, FALSE),
      Instruction(164, 1, "mul AB", <<>>, FALSE, FALSE),
      Instruction(165, 1, "dec DPTR", <<>>, FALSE, FALSE),
      Instruction(166, 2, "mov @R0, {0}", <<"DATA">>, FALSE, FALSE),
      Instruction(167, 2, "mov @R1, {0}", <<"DATA">>, FALSE, FALSE),
      Instruction(176, 2, "anl C, /{0}", <<"BIT">>, FALSE, FALSE),
      Instruction(178, 2, "cpl {0}", <<"BIT">>, FALSE, FALSE),
      Instruction(179, 1, "cpl C", <<>>, FALSE, FALSE),
      Instruction(180, 3, "cjne A, #{0}, {1}", <<"IMM", "REL">>, FALSE, FALSE),
      Instruction(181, 3, "cjne A, {0}, {1}", <<"DATA", "REL">>, FALSE, FALSE),
      Instruction(182, 3, "cjne @R0, #{0}, {1}", <<"IMM", "REL">>, FALSE, FALSE),
      Instruction(183, 3, "cjne @R1, #{0}, {1}", <<"IMM", "REL">>, FALSE, FALSE),
      Instruction(192, 2, "push {0}", <<"DATA">>, FALSE, FALSE),
      Instruction(194, 2, "clr {0}", <<"BIT">>, FALSE, FALSE),
      Instruction(195, 1, "clr C", <<>>, FALSE, FALSE),
      Instruction(196, 1, "swap A", <<>>, FALSE, FALSE),
      Instruction(197, 2, "xch A, {0}", <<"DATA">>, FALSE, FALSE),
      Instruction(208, 2, "pop {0}", <<"DATA">>, FALSE, FALSE),
      Instruction(210, 2, "setb {0}", <<"BIT">>, FALSE, FALSE),
      Instruction(211, 1, "setb C", <<>>, FALSE, FALSE),
      Instruction(212, 1, "da A", <<>>, FALSE, FALSE),
      Instruction(213, 3, "djnz {0}, {1}", <<"DATA", "REL">>, FALSE, FALSE),
      Instruction(224, 1, "movx A, @DPTR", <<>>, FALSE, FALSE),
      Instruction(226, 1, "movx A, @R0", <<>>, FALSE, FALSE),
      Instruction(227, 1, "movx A, @R1", <<>>, FALSE, FALSE),
      Instruction(228, 1, "clr A", <<>>, FALSE, FALSE),
      Instruction(229, 2, "mov A, {0}", <<"DATA">>, FALSE, FALSE),
      Instruction(240, 1, "movx @DPTR, A", <<>>, FALSE, FALSE),
      Instruction(242, 1, "movx @R0, A", <<>>, FALSE, FALSE),
      Instruction(243, 1, "movx @R1, A", <<>>, FALSE, FALSE),
      Instruction(244, 1, "cpl A", <<>>, FALSE, FALSE),
      Instruction(245, 2, "mov {0}, A", <<"DATA">>, FALSE, FALSE) >>

\* the sequence of Instruction objects Instructions.__init__ hands to __add
Registrations == RegisterGroups \o MovRegGroups \o PageJumpGroups \o Singles

NumOpcodes == 256

Opcodes == 0..(NumOpcodes - 1)

\* Instructions.__add : its assertion holds iff the opcode is still free
AddAllowed(instrs, instruction) == instruction.code \notin DOMAIN instrs

\* the completeness assertions that end Instructions.__init__
AllPresent(instrs) == \A code \in Opcodes : code \in DOMAIN instrs

\* the dictionary after the first n registrations have been added
DictAfter(n) ==
    [code \in {Registrations[i].code : i \in 1..n} |->
       Registrations[CHOOSE i \in 1..n : Registrations[i].code = code]]

\* the dictionary a construction without assertion failure ends with
Catalog == DictAfter(Len(Registrations))

\* Instructions.instructions : every __add stores the next registration,
\* so the dictionary is determined by the number of __add calls made
instructions ==
    IF regIdx = Len(Registrations) THEN Catalog ELSE DictAfter(regIdx)

----------------------------------------------------------------------------
(* utils.py                                                                *)

HexDigit == <<"0", "1", "2", "3", "4", "5", "6", "7", "8", "9",
              "A", "B", "C", "D", "E", "F">>

\* the hexadecimal digits of n >= 0, zero-padded on the left to width w
RECURSIVE HexPad(_, _)
HexPad(n, w) ==
    IF n < 16
    THEN (IF w > 1 THEN HexPad(0, w - 1) ELSE "") \o HexDigit[n + 1]
    ELSE HexPad(n \div 16, w - 1) \o HexDigit[(n % 16) + 1]

\* '%04X' % x : the sign counts towards the width
Fmt04X(x) == IF x < 0 THEN "-" \o HexPad(-x, 3) ELSE HexPad(x, 4)

\* the most significant hexadecimal digit of n >= 0
RECURSIVE TopHexDigit(_)
TopHexDigit(n) == IF n < 16 THEN n ELSE TopHexDigit(n \div 16)

\* utils.int2hex : '%02Xh' % x, prefixed with '0' unless it starts with a digit
int2hex(x) ==
    LET s == IF x < 0 THEN "-" \o HexPad(-x, 1) ELSE HexPad(x, 2)
        startsWithDigit == x >= 0 /\ (x < 16 \/ TopHexDigit(x) <= 9)
    IN  (IF startsWithDigit THEN "" ELSE "0") \o s \o "h"

\* utils.auto_label
auto_label(prefix, address) == prefix \o "_" \o Fmt04X(address)

\* utils.binary_hint : the text depends on the byte only; it is kept as
\* the three parts the text is made of
binary_hint(byte) ==
    [unsigned  |-> byte,
     signed    |-> IF byte >= 128 THEN byte - 256 ELSE byte,
     printable |-> (byte >= 32 /\ byte <= 126) \/ (byte >= 161 /\ byte # 173)]

\* utils.binary_byte
binary_byte(byte, at) ==
    [line |-> "db", value |-> int2hex(byte), at |-> Fmt04X(at),
     hint |-> binary_hint(byte)]

\* utils.binary_word
binary_word(word, at) ==
    [line |-> "dw", value |-> int2hex(word), at |-> Fmt04X(at)]

----------------------------------------------------------------------------
(* codeanalyzer.py: LabelType and the operand decoder InstrArgsAnalyzer    *)

JUMP == "jump"

DPTR == "dptr"

ADDR == "addr"

\* Python's rom[i] : negative indices count from the end, anything outside
\* -len .. len-1 raises IndexError
InRange(r, i) == i >= -Len(r) /\ i < Len(r)

RomAt(r, i) == IF i >= 0 THEN r[i + 1] ELSE r[Len(r) + i + 1]

None == [status |-> "none"]

IndexError == [status |-> "error"]

Analyzed(arg, val, hint, pc_arg) ==
    [status |-> "ok", arg |-> arg, val |-> val, hint |-> hint, pc_arg |-> pc_arg]

\* a page target that leaves out the address bits kept in the opcode
PageTargetNoOpcodeBits(pc_rel, val, opcode) ==
    BitOr(AndMask16(pc_rel, 63488), val)

\* next_arg, ArgType.ADDR:
\* "(self.pc_rel & 0xF800) | val | ((self.rom[self.pc] << 3) & 0x700)"
PageTarget(pc_rel, val, opcode) ==
    BitOr(BitOr(AndMask16(pc_rel, 63488), val), BitAnd(opcode * 8, 1792))

\* a relative target that takes the displacement for an unsigned byte
RelTargetUnsigned(pc_rel, val) == pc_rel + val

\* next_arg, ArgType.REL:
\* "if val >= 0x80: val = val - 0x100" and "val = self.pc_rel + val"
RelTarget(pc_rel, val) == pc_rel + (IF val >= 128 THEN val - 256 ELSE val)

\* InstrArgsAnalyzer.next_arg ; ipc is self.pc, the address of the opcode
next_arg(r, ipc, pc_rel, off, pc_arg, arg) ==
    IF ipc >= Len(r) THEN None
    ELSE IF ~InRange(r, pc_arg) THEN IndexError
    ELSE
      LET val == RomAt(r, pc_arg)
          nxt == pc_arg + 1
      IN  CASE arg = "LABEL" ->
                 IF nxt >= Len(r) THEN None
                 ELSE Analyzed("LABEL", BitOr(val * 256, RomAt(r, nxt)) - off,
                               << >>, nxt + 1)
            [] arg = "ADDR" ->
                 IF ~InRange(r, ipc) THEN IndexError
                 ELSE Analyzed("LABEL", PageTarget(pc_rel, val, RomAt(r, ipc)),
                               << >>, nxt)
            [] arg = "REL" ->
                 LET v == RelTarget(pc_rel, val)
                 IN  IF v < 0 THEN None ELSE Analyzed("LABEL", v, << >>, nxt)
            [] arg = "IMM" -> Analyzed(arg, val, << binary_hint(val) >>, nxt)
            [] OTHER -> Analyzed(arg, val, << >>, nxt)

\* no InstrArgsAnalyzer has been constructed
NoAnalyzer == [pc |-> 0, pc_rel |-> 0, pc_arg |-> 0, i |-> 0, analyzed |-> None]

\* InstrArgsAnalyzer.__init__(rom, pc, pc_rel, offset) ; i is the number of
\* the operand the caller's "for iarg in instr.args" asks for next
InstrArgsAnalyzer(ipc, pc_rel) ==
    [pc |-> ipc, pc_rel |-> pc_rel, pc_arg |-> ipc + 1, i |-> 1,
     analyzed |-> None]

\* one "analyzed = analyzer.next_arg(iarg)" of the callers' loop over the
\* operands of the instruction at analyzer.pc ; the loop ends at the first
\* operand that does not decode
NextArg ==
    /\ phase = "decode"
    /\ LET args == instructions[RomAt(rom, analyzer.pc)].args
       IN  /\ analyzer.i <= Len(args)
           /\ analyzer.i = 1 \/ analyzer.analyzed.status = "ok"
           /\ LET a == next_arg(rom, analyzer.pc, analyzer.pc_rel, offset,
                                analyzer.pc_arg, args[analyzer.i])
              IN  analyzer' = [analyzer EXCEPT
                                 !.pc_arg = IF a.status = "ok" THEN a.pc_arg ELSE @,
                                 !.i = @ + 1,
                                 !.analyzed = a]
    /\ UNCHANGED << catVars, inputVars, examined, addresses, labels, labelOrder,
                    forwards, SFR_warnings, entry_queue, phase, scanVars,
                    enqueued, scanned, render >>

----------------------------------------------------------------------------
(* codeanalyzer.py: CodeAnalyzer.analyze_jumps                             *)

\* a classification that takes every label operand for a jump target
LabelTypeOfJump(instr) == JUMP

\* analyze_jumps: ltype of a label operand
LabelTypeOf(instr) == IF instr.no_jump THEN DPTR ELSE JUMP

\* a forwarding entry recorded for any flow-terminating jump of the scan
RecordForwardAnywhere(fwds, instr, ipc, strt, val) ==
    IF ~instr.no_jump /\ instr.jump_out
    THEN MapPut(fwds, ipc, val)
    ELSE fwds

\* analyze_jumps: "if pc == start and instr.jump_out: self.forwards[pc] = val"
RecordForward(fwds, instr, ipc, strt, val) ==
    IF ~instr.no_jump /\ ipc = strt /\ instr.jump_out
    THEN MapPut(fwds, ipc, val)
    ELSE fwds

\* the no-return override without the membership test
NoReturnOverrideNever(jump_out, instr, val, nrf) == jump_out

\* analyze_jumps: "if val in self.no_return_from: jump_out = True",
\* reached only for instructions that are not no_jump
NoReturnOverride(jump_out, instr, val, nrf) ==
    IF ~instr.no_jump /\ val \in nrf THEN TRUE ELSE jump_out

\* a store that overwrites an existing classification
StoreLabelOverwrite(lbls, val, ltype) == MapPut(lbls, val, ltype)

\* a store that replaces the table by the new entry
StoreLabelReplace(lbls, val, ltype) ==
    IF val \notin DOMAIN lbls THEN [x \in {val} |-> ltype] ELSE lbls

\* analyze_jumps: "if val not in self.labels: self.labels[val] = ltype"
StoreLabel(lbls, val, ltype) ==
    IF val \notin DOMAIN lbls THEN MapPut(lbls, val, ltype) ELSE lbls

\* a discovery that ignores the label table
NewJumpsUngated(jmps, lbls, val, ltype) ==
    IF ltype = JUMP THEN jmps \cup {val} ELSE jmps

\* analyze_jumps: "if ltype == LabelType.JUMP: jumps.add(val)" under
\* "if val not in self.labels"
NewJumps(jmps, lbls, val, ltype) ==
    IF val \notin DOMAIN lbls /\ ltype = JUMP THEN jmps \cup {val} ELSE jmps

\* analyze_jumps: the body of "if arg == ArgType.LABEL and val != pc"
\* st is the analyzer state the loop over the operands carries along
ClassifyLabel(st, instr, ipc, strt, val, nrf) ==
    LET ltype == LabelTypeOf(instr)
        lbls  == StoreLabel(st.labels, val, ltype)
    IN  [st EXCEPT
           !.forwards = RecordForward(st.forwards, instr, ipc, strt, val),
           !.jump_out = NoReturnOverride(st.jump_out, instr, val, nrf),
           !.labels   = lbls,
           !.order    = SelectSeq(st.order, LAMBDA k : k \in DOMAIN lbls)
                          \o (IF val \in DOMAIN lbls /\ val \notin Range(st.order)
                              THEN << val >> ELSE << >>),
           !.jumps    = NewJumps(st.jumps, st.labels, val, ltype)]

\* a test that takes every label operand, a self-jump included
LabelToAny(analyzed, ipc) == analyzed.arg = "LABEL"

\* analyze_jumps: "if arg == ArgType.LABEL and val != pc"
LabelToOther(analyzed, ipc) == analyzed.arg = "LABEL" /\ analyzed.val # ipc

\* analyze_jumps: "for iarg in instr.args", from operand number i on
RECURSIVE ArgsLoop(_, _, _, _, _, _, _, _)
ArgsLoop(st, instr, i, r, ipc, strt, off, nrf) ==
    IF i > Len(instr.args) THEN st
    ELSE
      LET analyzed == next_arg(r, ipc, ipc + instr.length, off, st.pc_arg,
                               instr.args[i])
      IN  IF analyzed.status = "error" THEN [st EXCEPT !.status = "error"]
          ELSE IF analyzed.status = "none" THEN [st EXCEPT !.status = "none"]
          ELSE
            LET st1 == [st EXCEPT !.pc_arg = analyzed.pc_arg]
                st2 == IF LabelToOther(analyzed, ipc)
                       THEN ClassifyLabel(st1, instr, ipc, strt, analyzed.val, nrf)
                       ELSE st1
            IN  ArgsLoop(st2, instr, i + 1, r, ipc, strt, off, nrf)

\* one iteration of "while pc < len(self.rom)" at address ipc;
\* next_pc is the value of pc after "pc += instr.length"
ScanIteration(instrs, r, ipc, strt, frc, off, nrf, lbls, order, fwds, jmps) ==
    LET base == [status |-> "ok", pc_arg |-> ipc + 1, labels |-> lbls,
                 order |-> order, forwards |-> fwds, jumps |-> jmps,
                 jump_out |-> FALSE, next_pc |-> ipc]
    IN  IF ~InRange(r, ipc) THEN [base EXCEPT !.status = "error"]
        ELSE IF RomAt(r, ipc) \notin DOMAIN instrs
        THEN [base EXCEPT !.status = "unknown"]
        ELSE
          LET instr == instrs[RomAt(r, ipc)]
              st0 == [base EXCEPT !.jump_out = instr.jump_out /\ ~frc,
                                  !.next_pc = ipc + instr.length]
          IN  IF instr.args # << >>
              THEN ArgsLoop(st0, instr, 1, r, ipc, strt, off, nrf)
              ELSE st0

\* an iteration that yields no element
PermsOfNone(S) == {<< >>}

\* all orders in which the elements of a set can be iterated
Perms(S) == {p \in [1..Cardinality(S) -> S] : Range(p) = S}

\* the driver: pop one address of the entry queue and call
\* analyze_jumps(start, entry_queue, force)
ScanCall ==
    /\ phase = "idle"
    /\ entry_queue # << >>
    /\ \E i \in 1..Len(entry_queue), f \in BOOLEAN :
         /\ start' = entry_queue[i]
         /\ pc' = entry_queue[i]
         /\ force' = f
         /\ entry_queue' = SubSeq(entry_queue, 1, i - 1)
                             \o SubSeq(entry_queue, i + 1, Len(entry_queue))
         /\ scanned' = scanned \cup {entry_queue[i]}
    /\ jumps' = {}
    /\ visited' = << >>
    /\ failedAt' = {}
    /\ phase' = "scan"
    /\ UNCHANGED << catVars, inputVars, analyzer, examined,
                    addresses, labels, labelOrder,
                    forwards, SFR_warnings, enqueued, render >>

\* analyze_jumps: one iteration of the while loop
ScanStep ==
    /\ phase = "scan"
    /\ pc < Len(rom)
    /\ LET it == ScanIteration(instructions, rom, pc, start, force, offset,
                               no_return_from, labels, labelOrder, forwards,
                               jumps)
       IN  /\ labels' = it.labels
           /\ labelOrder' = it.order
           /\ forwards' = it.forwards
           /\ jumps' = it.jumps
           /\ pc' = IF it.status \in {"ok", "none"} THEN it.next_pc ELSE pc
           /\ failedAt' = IF it.status = "none" THEN failedAt \cup {pc}
                          ELSE failedAt
           /\ phase' = CASE it.status = "error" -> "crashed"
                         [] it.status = "unknown" -> "return"
                         [] OTHER -> IF it.jump_out THEN "return" ELSE "scan"
    /\ visited' = Append(visited, pc)
    /\ examined' = examined \cup {pc}
    /\ UNCHANGED << catVars, inputVars, analyzer,
                    addresses, SFR_warnings, entry_queue,
                    start, force, enqueued, scanned, render >>

\* analyze_jumps: "entry_queue += jumps; return pc"
ScanReturn ==
    /\ \/ phase = "return"
       \/ phase = "scan" /\ pc >= Len(rom)
    /\ \E p \in Perms(jumps) :
         /\ entry_queue' = entry_queue \o p
         /\ enqueued' = enqueued \o [i \in 1..Len(p) |->
                                        [address |-> p[i], by |-> "scan"]]
    /\ phase' = "idle"
    /\ UNCHANGED << catVars, inputVars, analyzer, examined,
                    addresses, labels, labelOrder,
                    forwards, SFR_warnings, scanVars, scanned, render >>

----------------------------------------------------------------------------
(* codeanalyzer.py: CodeAnalyzer.give_auto_labels                          *)

\* the name give_auto_labels computes for one label-table entry that has
\* no name yet; names is addresses['LABEL'] at that moment
AutoName(names, fwds, address, kind) ==
    IF address \in DOMAIN fwds
    THEN LET fwd == fwds[address]
         IN  ("fwd_" \o Fmt04X(address) \o "_") \o
             (IF fwd \in DOMAIN names THEN names[fwd] ELSE auto_label(kind, fwd))
    ELSE auto_label(kind, address)

\* a guard that lets the namer rename every label-table address
UnnamedAlways(names, address) == TRUE

\* give_auto_labels: "if address not in self.addresses['LABEL']"
Unnamed(names, address) == address \notin DOMAIN names

\* "for address, jump in self.labels.items()", from entry number i on
RECURSIVE NameLoop(_, _, _, _, _)
NameLoop(names, lbls, order, fwds, i) ==
    IF i > Len(order) THEN names
    ELSE LET address == order[i]
         IN  NameLoop(IF Unnamed(names, address)
                      THEN MapPut(names, address,
                                  AutoName(names, fwds, address, lbls[address]))
                      ELSE names,
                      lbls, order, fwds, i + 1)

\* the driver calls give_auto_labels once the entry queue is empty
GiveAutoLabels ==
    /\ phase = "idle"
    /\ entry_queue = << >>
    /\ addresses' = [addresses EXCEPT
                       !.LABEL = NameLoop(addresses.LABEL, labels, labelOrder,
                                          forwards, 1)]
    /\ phase' = "named"
    /\ UNCHANGED << catVars, inputVars, analyzer, examined,
                    labels, labelOrder, forwards,
                    SFR_warnings, entry_queue, scanVars, enqueued, scanned,
                    render >>

----------------------------------------------------------------------------
(* codeanalyzer.py: the renderer                                           *)

\* __disassemble_instruction: the part of the loop body after next_arg;
\* st carries args, hints and the SFR warnings
RenderArg(st, analyzed, ipc, addrs) ==
    LET isBit  == analyzed.arg = "BIT" /\ analyzed.val \notin DOMAIN addrs.BIT
        suffix == IF isBit THEN "." \o Digit[(analyzed.val % 8) + 1] ELSE ""
        val    == IF isBit
                  THEN (IF analyzed.val >= 128
                        THEN BitAnd(analyzed.val, 248)
                        ELSE BitOr(32, analyzed.val \div 8))
                  ELSE analyzed.val
        arg    == IF isBit THEN "DATA" ELSE analyzed.arg
        warn   == /\ arg = "DATA"
                  /\ val >= 128
                  /\ val \notin st.warnings
                  /\ val \notin DOMAIN addrs.DATA
        valstr == IF arg = "LABEL" /\ val = ipc THEN "$"
                  ELSE IF arg \in DOMAIN addrs /\ val \in DOMAIN addrs[arg]
                  THEN addrs[arg][val]
                  ELSE int2hex(val)
    IN  [st EXCEPT !.pc_arg = analyzed.pc_arg,
                   !.hints = st.hints \o analyzed.hint,
                   !.warnings = IF warn THEN st.warnings \cup {val}
                                ELSE st.warnings,
                   !.stderr = IF warn THEN Append(st.stderr, int2hex(val))
                              ELSE st.stderr,
                   !.args = Append(st.args, valstr \o suffix)]

\* __disassemble_instruction: "for iarg in instr.args", from operand i on
RECURSIVE RenderArgsLoop(_, _, _, _, _, _, _)
RenderArgsLoop(st, instr, i, r, ipc, off, addrs) ==
    IF i > Len(instr.args) THEN st
    ELSE
      LET analyzed == next_arg(r, ipc, ipc + instr.length, off, st.pc_arg,
                               instr.args[i])
      IN  IF analyzed.status # "ok" THEN [st EXCEPT !.status = analyzed.status]
          ELSE RenderArgsLoop(RenderArg(st, analyzed, ipc, addrs), instr,
                              i + 1, r, ipc, off, addrs)

\* CodeAnalyzer.__disassemble_instruction ; status "none" is the None result
DisassembleInstruction(instrs, r, ipc, off, addrs, warned) ==
    LET base == [status |-> "ok", pc_arg |-> ipc + 1, hints |-> << >>,
                 warnings |-> warned, stderr |-> << >>, args |-> << >>,
                 text |-> << >>, length |-> 0]
    IN  IF ipc >= Len(r) THEN [base EXCEPT !.status = "none"]
        ELSE IF ~InRange(r, ipc) THEN [base EXCEPT !.status = "error"]
        ELSE IF RomAt(r, ipc) \notin DOMAIN instrs
        THEN [base EXCEPT !.status = "none"]
        ELSE
          LET instr == instrs[RomAt(r, ipc)]
              st == IF instr.args # << >>
                    THEN RenderArgsLoop(base, instr, 1, r, ipc, off, addrs)
                    ELSE base
          IN  IF st.status # "ok" THEN st
              ELSE IF Len(st.args) # Len(instr.args)
              THEN [st EXCEPT !.status = "none"]
              ELSE [st EXCEPT
                      !.text = << [line |-> "instr",
                                   mnemonic |-> instr.mnemonic,
                                   args |-> st.args, hints |-> st.hints,
                                   blank |-> instr.jump_out] >>,
                      !.length = instr.length]

\* CodeAnalyzer.maybe_print_org_label : the lines printed and the result
maybe_print_org_label(addrs, at, force_org, just_started) ==
    LET orgLine ==
          IF at \in DOMAIN addrs.CODE
          THEN << [line |-> "org", value |-> addrs.CODE[at]] >>
          ELSE IF force_org
          THEN << [line |-> "org", value |-> int2hex(at)] >>
          ELSE IF just_started /\ at \notin DOMAIN addrs.LABEL
          THEN << [line |-> ";org", value |-> int2hex(at)] >>
          ELSE << >>
        labelLine ==
          IF at \in DOMAIN addrs.LABEL
          THEN << [line |-> "label", value |-> addrs.LABEL[at]] >>
          ELSE << >>
    IN  [out |-> orgLine \o labelLine,
         org |-> at \in DOMAIN addrs.CODE \/ force_org]

\* disassemble_code_block: "while pc < end"; rs is the state of the call
RECURSIVE CodeBlockLoop(_, _, _, _, _)
CodeBlockLoop(rs, instrs, r, off, addrs) ==
    IF rs.status # "ok" \/ ~(rs.pc < rs.end) THEN rs
    ELSE
      LET head == maybe_print_org_label(addrs, rs.pc, rs.force_org,
                                        rs.pc = rs.start)
          disasm == DisassembleInstruction(instrs, r, rs.pc, off, addrs,
                                           rs.warnings)
          common == [rs EXCEPT !.force_org = IF head.org THEN FALSE ELSE @,
                               !.warnings = disasm.warnings,
                               !.stderr = @ \o disasm.stderr]
      IN  IF disasm.status = "error"
          THEN [common EXCEPT !.status = "error", !.out = @ \o head.out]
          ELSE IF disasm.status = "ok"
          THEN CodeBlockLoop(
                 [common EXCEPT
                    !.out = @ \o head.out \o disasm.text,
                    !.trace = Append(@, [at |-> rs.pc, kind |-> "instr",
                                         length |-> disasm.length]),
                    !.pc = @ + disasm.length],
                 instrs, r, off, addrs)
          ELSE IF ~InRange(r, rs.pc)
          THEN [common EXCEPT !.status = "error", !.out = @ \o head.out]
          ELSE CodeBlockLoop(
                 [common EXCEPT
                    !.out = @ \o head.out
                              \o << binary_byte(RomAt(r, rs.pc), rs.pc) >>,
                    !.trace = Append(@, [at |-> rs.pc, kind |-> "db",
                                         length |-> 1]),
                    !.pc = @ + 1],
                 instrs, r, off, addrs)

\* dump_binary_block: "while pc < end"
RECURSIVE BinaryBlockLoop(_, _, _, _)
BinaryBlockLoop(rs, r, lbls, addrs) ==
    IF ~(rs.pc < rs.end) THEN rs
    ELSE
      LET isWord == /\ rs.pc + 1 < rs.end
                    /\ rs.pc \in DOMAIN lbls
                    /\ lbls[rs.pc] = ADDR
          result == IF isWord
                    THEN << binary_word(BitOr(RomAt(r, rs.pc) * 256,
                                              RomAt(r, rs.pc + 1)), rs.pc) >>
                    ELSE IF RomAt(r, rs.pc) # 255
                    THEN << binary_byte(RomAt(r, rs.pc), rs.pc) >>
                    ELSE << >>
          length == IF isWord THEN 2 ELSE 1
          printHead == result # << >> \/ rs.pc \in DOMAIN lbls
          head == IF printHead
                  THEN maybe_print_org_label(addrs, rs.pc,
                                             rs.force_org \/ rs.pc # rs.done_to,
                                             rs.pc = rs.start)
                  ELSE [out |-> << >>, org |-> FALSE]
      IN  BinaryBlockLoop(
            [rs EXCEPT
               !.force_org = IF head.org THEN FALSE ELSE @,
               !.out = @ \o head.out \o result,
               !.trace = Append(@, [at |-> rs.pc,
                                    kind |-> IF isWord THEN "dw" ELSE "db",
                                    length |-> length]),
               !.done_to = IF result # << >> THEN rs.pc + length ELSE @,
               !.pc = @ + length],
            r, lbls, addrs)

\* the state a renderer call starts in
RenderCall(op, strt, end, force_org, warned) ==
    [op |-> op, status |-> "ok", start |-> strt, end |-> end,
     force_org |-> force_org, pc |-> strt, done_to |-> strt, out |-> << >>,
     trace |-> << >>, warnings |-> warned, stderr |-> << >>]

NoRender == RenderCall("none", 0, 0, FALSE, {})

\* the driver sweeps the address space once: a block starts at or after
\* the address the previous renderer call stopped at
SweepStarts == render.pc..(Len(rom) - 1)

\* the driver calls disassemble_code_block(start, end, force_org)
DisassembleCodeBlock ==
    /\ phase = "named"
    /\ \E s \in SweepStarts, f \in BOOLEAN :
         \E e \in (s + 1)..Len(rom) :
           LET rs == CodeBlockLoop(RenderCall("code", s, e, f, SFR_warnings),
                                   instructions, rom, offset, addresses)
           IN  /\ render' = rs
               /\ SFR_warnings' = rs.warnings
               /\ phase' = IF rs.status = "error" THEN "crashed" ELSE "named"
    /\ UNCHANGED << catVars, inputVars, analyzer, examined,
                    addresses, labels, labelOrder,
                    forwards, entry_queue, scanVars, enqueued, scanned >>

\* the driver calls dump_binary_block(start, end, force_org)
DumpBinaryBlock ==
    /\ phase = "named"
    /\ \E s \in SweepStarts, f \in BOOLEAN :
         \E e \in (s + 1)..Len(rom) :
           render' = BinaryBlockLoop(RenderCall("data", s, e, f, SFR_warnings),
                                     rom, labels, addresses)
    /\ UNCHANGED << catVars, inputVars, analyzer, examined,
                    addresses, labels, labelOrder,
                    forwards, SFR_warnings, entry_queue, phase, scanVars,
                    enqueued, scanned >>

----------------------------------------------------------------------------
(* instructions.py: Instructions.__init__ as a sequence of __add calls     *)

\* one "self.__add(Instruction(...))" of Instructions.__init__
Add ==
    /\ catPhase = "adding"
    /\ regIdx < Len(Registrations)
    /\ LET instruction == Registrations[regIdx + 1]
       IN  IF AddAllowed(instructions, instruction)
           THEN /\ regIdx' = regIdx + 1
                /\ catPhase' = "adding"
           ELSE /\ catPhase' = "failed"
                /\ UNCHANGED regIdx
    /\ UNCHANGED << inputVars, analyzer, examined,
                    addresses, labels, labelOrder, forwards,
                    SFR_warnings, entry_queue, phase, scanVars, enqueued,
                    scanned, render >>

\* the loop of assertions "code in self.instructions" that ends __init__
CheckComplete ==
    /\ catPhase = "adding"
    /\ regIdx = Len(Registrations)
    /\ catPhase' = IF AllPresent(instructions) THEN "built" ELSE "failed"
    /\ UNCHANGED << regIdx, inputVars, analyzer, examined,
                    addresses, labels, labelOrder,
                    forwards, SFR_warnings, entry_queue, phase, scanVars,
                    enqueued, scanned, render >>

----------------------------------------------------------------------------
(* Inputs and specifications                                               *)

\* longest ROM image explored by the analysis
MaxRomLen == 4

\* longest ROM image explored together with the renderer
MaxRenderRomLen == 3

\* longest ROM image explored under fairness
MaxFairRomLen == 2

\* the byte values ROM images are made of: nop, ljmp, lcall, sjmp and
\* mov DPTR, which double as operand bytes
RomBytes == {0, 2, 18, 128, 144}

\* for the renderer: nop, ljmp, jbc (a bit and a relative operand), sjmp
RenderRomBytes == {0, 2, 16, 128}

RomsOver(bytes, n) == UNION {[1..k -> bytes] : k \in 1..n}

NoSymbols == [CODE |-> EmptyMap, DATA |-> EmptyMap, BIT |-> EmptyMap,
              LABEL |-> EmptyMap]

SomeSymbols == [CODE  |-> [a \in {0} |-> "RESET"],
                DATA  |-> [a \in {128} |-> "P0"],
                BIT   |-> [a \in {16} |-> "flag"],
                LABEL |-> [a \in {2} |-> "loop"]]

\* hint sets, external symbols and code-segment starts given to a run
Hints == {
    [indirect |-> {},     symbols |-> NoSymbols,   seeds |-> <<0>>],
    [indirect |-> {0, 1}, symbols |-> SomeSymbols, seeds |-> <<0, 1>>],
    [indirect |-> {2},    symbols |-> NoSymbols,   seeds |-> <<0>>] }

Offsets == {0, 1}

NoReturnSets == {{}, {2}}

\* CodeAnalyzer.__init__ : the label table pre-seeded from indirect
InitLabels(indirect) == [a \in indirect |-> ADDR]

\* the state after Instructions(), Addresses() with the external symbols
\* loaded, CodeAnalyzer(...) and the seeding of the entry queue
InitWith(roms, offsets, noReturns) ==
    /\ regIdx = Len(Registrations)
    /\ catPhase = "built"
    /\ rom \in roms
    /\ offset \in offsets
    /\ no_return_from \in noReturns
    /\ \E h \in Hints :
         /\ \A a \in h.indirect : a < Len(rom)
         /\ \A i \in 1..Len(h.seeds) : h.seeds[i] < Len(rom)
         /\ addresses = h.symbols
         /\ labels = InitLabels(h.indirect)
         /\ labelOrder \in Perms(h.indirect)
         /\ entry_queue = h.seeds
         /\ enqueued = [i \in 1..Len(h.seeds) |->
                          [address |-> h.seeds[i], by |-> "seed"]]
    /\ forwards = EmptyMap
    /\ SFR_warnings = {}
    /\ scanned = {}
    /\ examined = {}
    /\ analyzer = NoAnalyzer
    /\ phase = "idle"
    /\ start = 0
    /\ force = FALSE
    /\ pc = 0
    /\ jumps = {}
    /\ visited = << >>
    /\ failedAt = {}
    /\ render = NoRender

Init == InitWith(RomsOver(RomBytes, MaxRomLen), Offsets, NoReturnSets)

\* the worklist loop followed by the namer
Next ==
    \/ ScanCall
    \/ ScanStep
    \/ ScanReturn
    \/ GiveAutoLabels

Spec == Init /\ [][Next]_vars

RenderInit == InitWith(RomsOver(RenderRomBytes, MaxRenderRomLen), {0}, {{}})

\* the whole pipeline: worklist loop, namer, renderer
RenderNext ==
    \/ ScanCall
    \/ ScanStep
    \/ ScanReturn
    \/ GiveAutoLabels
    \/ DisassembleCodeBlock
    \/ DumpBinaryBlock

RenderSpec == RenderInit /\ [][RenderNext]_vars

\* the state in which Instructions.__init__ starts
CatalogInit ==
    /\ regIdx = 0
    /\ catPhase = "adding"
    /\ rom = << 0 >>
    /\ offset = 0
    /\ no_return_from = {}
    /\ addresses = NoSymbols
    /\ labels = EmptyMap
    /\ labelOrder = << >>
    /\ forwards = EmptyMap
    /\ SFR_warnings = {}
    /\ entry_queue = << >>
    /\ enqueued = << >>
    /\ scanned = {}
    /\ examined = {}
    /\ analyzer = NoAnalyzer
    /\ phase = "construct"
    /\ start = 0
    /\ force = FALSE
    /\ pc = 0
    /\ jumps = {}
    /\ visited = << >>
    /\ failedAt = {}
    /\ render = NoRender

CatalogNext == Add \/ CheckComplete

CatalogSpec == CatalogInit /\ [][CatalogNext]_vars

\* highest opcode address at which single instructions are decoded
MaxDecodeAddr == 65534

\* opcode addresses: start of the image, inside page 0, the last bytes of
\* page 0, inside page 1, and the top of the image
DecodeAddresses == {0, 256, 2046, 2047, 2304, MaxDecodeAddr}

\* ajmp/acall of every page offset, sjmp, jc, ljmp, jbc, cjne A, #imm
DecodeOpcodes ==
    {32 * a + 1 : a \in 0..7} \cup {32 * a + 17 : a \in 0..7}
      \cup {128, 64, 2, 16, 180}

DecodeOperandBytes == {0, 52, 127, 128, 254, 255}

\* an image of nop bytes that ends with the instruction bytes at address at
RomWith(at, bytes) ==
    [k \in 1..(at + Len(bytes)) |-> IF k > at THEN bytes[k - at] ELSE 0]

\* an InstrArgsAnalyzer constructed, as the callers do, for one instruction
\* of an image: InstrArgsAnalyzer(self.rom, pc, pc + instr.length, self.offset)
DecodeInit ==
    /\ regIdx = Len(Registrations)
    /\ catPhase = "built"
    /\ offset = 0
    /\ no_return_from = {}
    /\ \E at \in DecodeAddresses, code \in DecodeOpcodes :
         \E operands \in [1..(instructions[code].length - 1) -> DecodeOperandBytes] :
           /\ rom = RomWith(at, << code >> \o operands)
           /\ analyzer = InstrArgsAnalyzer(at, at + instructions[code].length)
    /\ addresses = NoSymbols
    /\ labels = EmptyMap
    /\ labelOrder = << >>
    /\ forwards = EmptyMap
    /\ SFR_warnings = {}
    /\ entry_queue = << >>
    /\ enqueued = << >>
    /\ scanned = {}
    /\ examined = {}
    /\ phase = "decode"
    /\ start = 0
    /\ force = FALSE
    /\ pc = 0
    /\ jumps = {}
    /\ visited = << >>
    /\ failedAt = {}
    /\ render = NoRender

DecodeNext == NextArg

DecodeSpec == DecodeInit /\ [][DecodeNext]_vars

\* the worklist loop under the fairness a sequential program provides:
\* a statement that can be executed is executed
FairInit == InitWith(RomsOver(RomBytes, MaxFairRomLen), {0}, {{}})

FairSpec == FairInit /\ [][Next]_vars /\ WF_vars(Next)

----------------------------------------------------------------------------
(* Properties                                                              *)

\* the descriptor of the instruction whose opcode byte is at address p
InstrAt(p) == instructions[RomAt(rom, p)]

\* the instruction at p needs more bytes than the image has left
Truncated(p) ==
    /\ p \in 0..(Len(rom) - 1)
    /\ p + InstrAt(p).length > Len(rom)

NoLabel == [found |-> FALSE, val |-> 0]

\* the destination the label operand of the instruction at ipc resolves to,
\* decoding its operands in order from operand i on
RECURSIVE LabelOperandFrom(_, _, _, _)
LabelOperandFrom(ipc, instr, pc_arg, i) ==
    IF i > Len(instr.args) THEN NoLabel
    ELSE LET a == next_arg(rom, ipc, ipc + instr.length, offset, pc_arg,
                           instr.args[i])
         IN  IF a.status # "ok" THEN NoLabel
             ELSE IF a.arg = "LABEL" THEN [found |-> TRUE, val |-> a.val]
             ELSE LabelOperandFrom(ipc, instr, a.pc_arg, i + 1)

LabelDest(p) ==
    IF InRange(rom, p) THEN LabelOperandFrom(p, InstrAt(p), p + 1, 1)
    ELSE NoLabel

LastVisited == visited[Len(visited)]

\* the addresses scan calls have appended to the entry queue
ScanAppended == SelectSeq(enqueued, LAMBDA e : e.by = "scan")

NoDuplicates(q) ==
    \A i, j \in 1..Len(q) : i # j => q[i].address # q[j].address

\* C1: a truncated instruction (its length reaches past the end of the
\* image) crashes neither the scan nor the renderer, and the renderer emits
\* one raw-data line for it and advances by one byte.
C1_TruncatedFallsBack ==
    /\ ~(phase = "crashed" /\ render.op = "none" /\ Truncated(pc))
    /\ ~(phase = "crashed" /\ render.op = "code" /\ Truncated(render.pc))
    /\ render.op = "code" =>
         \A i \in 1..Len(render.trace) :
           Truncated(render.trace[i].at) =>
             render.trace[i].kind = "db" /\ render.trace[i].length = 1

\* C2: an address that has a classification in the label table keeps it:
\* no step removes the entry or changes its kind.
C2_FirstClassificationWins ==
    [][\A a \in DOMAIN labels :
         a \in DOMAIN labels' /\ labels'[a] = labels[a]]_vars

\* a scan has examined an instruction whose label operand resolves to an
\* address that already carried a different kind, and the old kind is kept
C2_Witness ==
    \E i \in 1..Len(visited) :
      LET d == LabelDest(visited[i])
      IN  /\ d.found
          /\ d.val # visited[i]
          /\ pc # visited[i]
          /\ d.val \in DOMAIN labels
          /\ labels[d.val] # LabelTypeOf(InstrAt(visited[i]))

\* C3: the worklist loop ends: every scan call returns to the driver and
\* the driver eventually finds the entry queue empty.
C3_WorklistTerminates == <>(phase = "idle" /\ entry_queue = << >>)

\* C4: when the decoder fails on an operand of the instruction at pc, the
\* scan stops at pc and the instruction has classified nothing.
C4_DecodeFailureStopsScan ==
    [][(failedAt' \ failedAt # {}) =>
         /\ pc' = pc
         /\ phase' = "return"
         /\ labels' = labels
         /\ forwards' = forwards]_vars

\* C5 as stated: no address is placed in the entry queue more than once,
\* seeds included.
C5_NoAddressQueuedTwice == NoDuplicates(enqueued)

\* C5 as amended: scan calls append no address twice, and an address a scan
\* discovers for the queue has no label-table entry at that moment.
C5_ScanAppendsOnce ==
    [][/\ \A a \in jumps' \ jumps : a \notin DOMAIN labels
       /\ NoDuplicates(ScanAppended')]_vars

\* the last scan examined a jump to an address an earlier scan had
\* appended, and appended nothing itself
C5_Witness ==
    /\ phase = "idle"
    /\ jumps = {}
    /\ \E i \in 1..Len(visited) :
         LET d == LabelDest(visited[i])
         IN  /\ d.found
             /\ d.val # visited[i]
             /\ ~InstrAt(visited[i]).no_jump
             /\ \E k \in 1..Len(ScanAppended) :
                  ScanAppended[k].address = d.val

\* C6 as stated: the label table never shrinks and never has more entries
\* than the image has bytes.
C6_LabelCountBounded ==
    [][/\ Cardinality(DOMAIN labels') >= Cardinality(DOMAIN labels)
       /\ Cardinality(DOMAIN labels') <= Len(rom)]_vars

\* C6 as amended: the number of entries of the label table never decreases.
C6_LabelCountMonotone ==
    [][Cardinality(DOMAIN labels') >= Cardinality(DOMAIN labels)]_vars

\* scans have grown the label table beyond the length of the image
C6_Witness ==
    /\ scanned # {}
    /\ \E a \in DOMAIN labels : labels[a] # ADDR
    /\ Cardinality(DOMAIN labels) > Len(rom)

\* C7: construction never fails an assertion, registers no opcode twice,
\* and ends with exactly one descriptor for every byte value 0..255.
C7_CatalogTotalUnique ==
    /\ catPhase # "failed"
    /\ \A i, j \in 1..regIdx :
         i # j => Registrations[i].code # Registrations[j].code
    /\ catPhase = "built" =>
         /\ DOMAIN instructions = Opcodes
         /\ regIdx = NumOpcodes
         /\ \A code \in Opcodes : instructions[code].code = code

\* construction has run to its end
C7_Witness == catPhase = "built" /\ phase = "construct"

\* C8: the namer names every unnamed label-table address A that has a
\* forwarding entry A -> B as the alias marker of A followed by the name B
\* ends up with.
C8_ForwardNameEmbedsTargetName ==
    [][(phase = "idle" /\ phase' = "named") =>
         \A a \in DOMAIN labels :
           (a \notin DOMAIN addresses.LABEL /\ a \in DOMAIN forwards) =>
             addresses'.LABEL[a] =
               ("fwd_" \o Fmt04X(a) \o "_") \o addresses'.LABEL[forwards[a]]]_vars

\* C9 as stated: no operation changes the symbol table.
C9_SymbolTableNeverChanges == [][addresses' = addresses]_vars

\* C9 as amended: CODE, DATA and BIT never change and no LABEL entry is
\* changed or removed; only give_auto_labels adds LABEL entries, and only
\* for addresses of the label table.
C9_OnlyNamerAddsLabels ==
    [][/\ addresses'.CODE = addresses.CODE
       /\ addresses'.DATA = addresses.DATA
       /\ addresses'.BIT = addresses.BIT
       /\ \A a \in DOMAIN addresses.LABEL :
            /\ a \in DOMAIN addresses'.LABEL
            /\ addresses'.LABEL[a] = addresses.LABEL[a]
       /\ (DOMAIN addresses'.LABEL \ DOMAIN addresses.LABEL) \subseteq DOMAIN labels
       /\ addresses' # addresses => (phase = "idle" /\ phase' = "named")]_vars

\* namer and renderer have run over a label table that holds an address
\* with an external name and one without
C9_Witness ==
    /\ phase = "named"
    /\ render.op \in {"code", "data"}
    /\ \E a \in DOMAIN labels : a \in DOMAIN SomeSymbols.LABEL
                                /\ addresses.LABEL[a] = SomeSymbols.LABEL[a]
    /\ \E a \in DOMAIN labels : a \notin DOMAIN SomeSymbols.LABEL
                                /\ a \in DOMAIN addresses.LABEL

\* the scan examines an instruction whose label operand resolves to a
\* member of the no-return set other than the instruction's own address
NoReturnTarget(p) ==
    LET d == LabelDest(p)
    IN  d.found /\ d.val # p /\ d.val \in no_return_from

\* the scan step at pc ends the scan right after the instruction
StopsAfterInstruction ==
    /\ pc' = pc + InstrAt(pc).length
    /\ phase' = "return" \/ pc' >= Len(rom)

\* C10 as stated: every instruction with a label operand into the no-return
\* set ends the scan right after itself.
C10_NoReturnStopsAnyInstruction ==
    [][(phase = "scan" /\ pc < Len(rom) /\ visited' # visited
          /\ NoReturnTarget(pc))
       => StopsAfterInstruction]_vars

\* C10 as amended: every instruction that is not pointer-load-only and has
\* a label operand into the no-return set ends the scan right after itself.
C10_NoReturnStopsControlTransfer ==
    [][(phase = "scan" /\ pc < Len(rom) /\ visited' # visited
          /\ NoReturnTarget(pc) /\ ~InstrAt(pc).no_jump)
       => StopsAfterInstruction]_vars

\* a call into the no-return set ended the scan although the call itself
\* falls through and bytes remain
C10_Witness ==
    /\ phase = "return"
    /\ visited # << >>
    /\ InRange(rom, LastVisited)
    /\ NoReturnTarget(LastVisited)
    /\ ~InstrAt(LastVisited).no_jump
    /\ ~InstrAt(LastVisited).jump_out
    /\ pc = LastVisited + InstrAt(LastVisited).length
    /\ pc < Len(rom)

\* the label operand of the instruction at p resolves to p itself
SelfJump(p) ==
    LET d == LabelDest(p)
    IN  d.found /\ d.val = p

\* C11: a scan step over an instruction whose label operand resolves to the
\* address of its own opcode byte leaves the label table and the forwarding
\* table as they are and discovers no address for the entry queue.
C11_SelfJumpLeavesNoTrace ==
    [][(phase = "scan" /\ pc < Len(rom) /\ visited' # visited /\ SelfJump(pc))
       => /\ labels' = labels
          /\ forwards' = forwards
          /\ jumps' = jumps]_vars

\* a scan call started at an unconditional jump to itself, examined it, and
\* the address has neither a classification nor a forwarding entry
C11_Witness ==
    /\ visited # << >>
    /\ visited[1] = start
    /\ pc # start
    /\ phase # "crashed"
    /\ InRange(rom, start)
    /\ SelfJump(start)
    /\ InstrAt(start).jump_out
    /\ start \notin DOMAIN labels
    /\ start \notin DOMAIN forwards

\* the instruction at p is pointer-load-only and its label operand
\* resolves to an address other than p
PointerLoadTarget(p) ==
    LET d == LabelDest(p)
    IN  InstrAt(p).no_jump /\ d.found /\ d.val # p

ForwardingJump(p) ==
    LET d == LabelDest(p)
    IN  /\ InRange(rom, p)
        /\ InstrAt(p).jump_out
        /\ ~InstrAt(p).no_jump
        /\ d.found
        /\ d.val # p

\* C13: every forwarding entry from -> to belongs to the start address of a
\* scan call whose instruction is a flow-terminating control transfer with
\* resolved destination to # from, and only the first instruction a scan
\* call examines changes the forwarding table.
C13_ForwardOnlyFromScanStart ==
    [][/\ \A from \in DOMAIN forwards' :
            /\ from \in scanned'
            /\ ForwardingJump(from)
            /\ forwards'[from] = LabelDest(from).val
       /\ forwards' # forwards => (phase = "scan" /\ pc = start /\ visited = << >>)]_vars

\* a scan call has recorded a forwarding entry for its first instruction
\* and went on to a second flow-terminating jump that has none
C13_Witness ==
    /\ Len(visited) >= 2
    /\ visited[1] = start
    /\ start \in DOMAIN forwards
    /\ \E i \in 2..Len(visited) :
         /\ pc # visited[i]
         /\ ForwardingJump(visited[i])
         /\ visited[i] \notin DOMAIN forwards

\* the operand type the call of next_arg in this step decodes
DecodedArgType == InstrAt(analyzer.pc).args[analyzer.i]

\* this step is a call of next_arg for an operand of type t whose raw byte
\* is in the image
Decodes(t) ==
    /\ phase = "decode"
    /\ analyzer'.i = analyzer.i + 1
    /\ DecodedArgType = t
    /\ InRange(rom, analyzer.pc_arg)

\* C14: next_arg resolves a REL operand with raw byte b to
\* pc_rel + (b if b < 0x80 else b - 256) as a LABEL when that value is not
\* negative, and returns None when it is negative.
C14_RelativeTarget ==
    [][Decodes("REL") =>
         LET b == RomAt(rom, analyzer.pc_arg)
             value == analyzer.pc_rel + (IF b < 128 THEN b ELSE b - 256)
         IN  IF value >= 0
             THEN /\ analyzer'.analyzed.status = "ok"
                  /\ analyzer'.analyzed.arg = "LABEL"
                  /\ analyzer'.analyzed.val = value
             ELSE analyzer'.analyzed = None]_vars

\* a REL operand with a negative displacement has been resolved to an
\* address before the instruction
C14_Witness ==
    /\ phase = "decode"
    /\ analyzer.i > 1
    /\ InstrAt(analyzer.pc).args[analyzer.i - 1] = "REL"
    /\ RomAt(rom, analyzer.pc_arg - 1) >= 128
    /\ analyzer.analyzed.status = "ok"
    /\ analyzer.analyzed.arg = "LABEL"
    /\ analyzer.analyzed.val < analyzer.pc

\* the value the claim gives for an ADDR operand with raw byte b of the
\* instruction with opcode c: page bits of pcNext, opcode bits 7..5 as
\* address bits 10..8, b as address bits 7..0
PageValue(pcNext, b, c) ==
    ((pcNext \div 2048) % 32) * 2048 + (c \div 32) * 256 + b

\* C15 as stated: next_arg resolves an ADDR operand to that value as a
\* LABEL, and the value lies in the 2 KiB page of pc_rel.
C15_PageTargetInPageOfNext ==
    [][Decodes("ADDR") =>
         /\ analyzer'.analyzed.status = "ok"
         /\ analyzer'.analyzed.arg = "LABEL"
         /\ analyzer'.analyzed.val =
              PageValue(analyzer.pc_rel, RomAt(rom, analyzer.pc_arg),
                        RomAt(rom, analyzer.pc))
         /\ analyzer'.analyzed.val \div 2048 = analyzer.pc_rel \div 2048]_vars

\* C15 as amended: next_arg resolves an ADDR operand to that value as a
\* LABEL, and the value lies in the 2 KiB page of pc_rel taken modulo 2^16.
C15_PageTargetInPageOfNext16 ==
    [][Decodes("ADDR") =>
         /\ analyzer'.analyzed.status = "ok"
         /\ analyzer'.analyzed.arg = "LABEL"
         /\ analyzer'.analyzed.val =
              PageValue(analyzer.pc_rel, RomAt(rom, analyzer.pc_arg),
                        RomAt(rom, analyzer.pc))
         /\ analyzer'.analyzed.val \div 2048
              = (analyzer.pc_rel % 65536) \div 2048]_vars

\* an ajmp/acall with opcode address bits other than 0 has been resolved
\* in a page other than page 0
C15_Witness ==
    /\ phase = "decode"
    /\ analyzer.i > 1
    /\ InstrAt(analyzer.pc).args[analyzer.i - 1] = "ADDR"
    /\ RomAt(rom, analyzer.pc) \div 32 > 0
    /\ analyzer.pc_rel \in 2048..65535
    /\ analyzer.analyzed.status = "ok"
    /\ analyzer.analyzed.val >= 2048

\* C16: every address of the label table, and every address a scan call
\* discovered for or appended to the entry queue, is an unsigned 16-bit
\* address.
C16_AddressesAreUint16 ==
    /\ \A a \in DOMAIN labels : a \in 0..65535
    /\ \A a \in jumps : a \in 0..65535
    /\ \A k \in 1..Len(ScanAppended) : ScanAppended[k].address \in 0..65535

\* the driver has found the entry queue empty
Drained == phase \in {"idle", "named"} /\ entry_queue = << >>

\* the addresses inside the image that instructions examined by scan calls
\* transfer control to: resolved destinations, other than self-jumps, of
\* label operands of instructions that are not pointer-load-only
TransferTargets ==
    {d \in 0..(Len(rom) - 1) :
       \E p \in examined :
         /\ InRange(rom, p)
         /\ ~InstrAt(p).no_jump
         /\ LabelDest(p).found
         /\ LabelDest(p).val = d
         /\ d # p}

\* C17 as stated: when the worklist has drained, every address inside the
\* image that an examined control transfer leads to has been the start
\* address of a scan call.
C17_TransferTargetsScanned == Drained => TransferTargets \subseteq scanned

\* C17 as amended: when the worklist has drained, every address inside the
\* image that an examined control transfer leads to and that the label
\* table classifies as JUMP has been the start address of a scan call.
C17_JumpTargetsScanned ==
    Drained =>
      \A d \in TransferTargets :
        (d \in DOMAIN labels /\ labels[d] = JUMP) => d \in scanned

\* the worklist has drained after a scan call was made for a jump target
\* that a scan, not the caller, had put into the entry queue
C17_Witness ==
    /\ Drained
    /\ \E d \in TransferTargets :
         /\ d \in DOMAIN labels
         /\ labels[d] = JUMP
         /\ d \in scanned
         /\ \A k \in 1..Len(enqueued) :
              enqueued[k].address = d => enqueued[k].by = "scan"

====
